---- MODULE Spec2Model ----
(***************************************************************************)
(* A model of the reconciliation helpers of terraform-provider-hetznerrobot: *)
(* the capped worker pool (runConcurrentTasks), the server set-diff and      *)
(* incremental attach/detach (diffServers, manageServers), the two           *)
(* retry-until-ready loops (WaitForVSwitchReady, waitForFirewallActive),      *)
(* the free-VLAN pick of the vSwitch create, DoRequest and Provider().        *)
(* Each part has its own specification over its own variables; the           *)
(* variables of the other parts stay at their idle values.                   *)
(***************************************************************************)
EXTENDS Integers, Sequences, FiniteSets, TLC

VARIABLES
    \* ---- runConcurrentTasks (internal/client/helpers.go) ----
    ids,        \* the ids argument
    failing,    \* the id values for which the worker returns an error
    pc,         \* position of the calling goroutine: "idle", "loop", "wait", "done"
    next,       \* index of the next element of ids the for loop will launch
    wg,         \* the sync.WaitGroup counter
    sem,        \* number of tokens in the buffered channel sem
    blocked,    \* per id value: goroutines at `sem <- struct{}{}`
    working,    \* per id value: goroutines inside worker(ctx, id)
    returned,   \* per id value: goroutines past `<-sem`, before mu.Lock()
    items,      \* the items slice
    errs,       \* the errs slice
    calls,      \* per id value: number of worker invocations so far
    result,     \* the returned ([]T, error) pair once pc = "done"
    \* ---- manageServers, diffServers (internal/vswitch) ----
    dpc,        \* position in manageServers: "idle", "diff", "remove", "add", "done"
    oldList,    \* the old value of the "servers" attribute
    newList,    \* the new value of the "servers" attribute
    attached0,  \* servers attached to the vSwitch on the API when the update starts
    attached,   \* servers attached to the vSwitch on the API
    toAdd,      \* first result of diffServers
    toRemove,   \* second result of diffServers
    requests,   \* the attach/detach requests sent so far
    dresult,    \* the diagnostics manageServers returned
    \* ---- WaitForVSwitchReady, SetFirewall (internal/client) ----
    wop,        \* the call under way: "idle", "vswitch", "firewall"
    wpc,        \* its position: "idle", "post", "fetch", "sleep", "done"
    wid,        \* the vSwitch id, or the IP of the firewall
    maxRetries, \* the retry budget of the loop
    attempt,    \* number of completed loop iterations
    fetchCount, \* number of fetches (GETs) issued by the loop
    busyCount,  \* number of fetches that succeeded and showed "not ready yet"
    readyCount, \* number of fetches that succeeded and showed "ready"
    lastFetch,  \* what the most recent fetch returned
    wresult,    \* the error value returned
    \* ---- resourceCreate, pickRandomFreeVLAN (internal/vswitch) ----
    cpc,        \* position in resourceCreate: "idle", "pick", "create", "finish", "done"
    vlanConfig, \* the configured "vlan" attribute, 0 when not set
    inUse,      \* the VLANs of the vSwitches FetchAllVSwitches returns
    fetchedAll, \* outcome of FetchAllVSwitches: "none", "ok", "error"
    chosenVLAN, \* the local chosenVLAN
    vlanAttr,   \* the "vlan" attribute of the resource data
    createCalls,\* the VLAN arguments of the CreateVSwitch calls made
    resourceId, \* the resource ID
    cresult,    \* the diagnostics resourceCreate returned
    \* ---- DoRequest (internal/client/helpers.go) ----
    rpc,        \* position in DoRequest: "idle", "build", "send", "done"
    config,     \* c.Config: Username, Password, BaseURL
    server,     \* the server behind BaseURL: "basic", "openapi"
    rmethod,    \* the method argument
    rpath,      \* the path argument
    rcontentType, \* the contentType argument
    request,    \* the *http.Request built, NoRequest before
    received,   \* the requests that reached the server
    answered,   \* the status the server answered with, 0 when it did not
    rresult,    \* the (*http.Response, error) pair returned
    \* ---- Provider, providerConfigure (hetznerrobot) ----
    ppc,        \* "idle", "start", "built", "configured"
    pinput,     \* the provider configuration: username, password, url
    provider,   \* the *schema.Provider returned by Provider()
    pclient,    \* the client returned by providerConfigure, NoClient when nil
    pdiags,     \* the diagnostics returned by providerConfigure
    \* ---- resource handlers: delete of vswitch and firewall, create of os_rescue ----
    rop,        \* the handler running: "idle", "vswitchDelete", "firewallDelete", "rescueCreate"
    opc,        \* its position
    meta,       \* the meta argument: "client" or something else
    resId,      \* d.Id()
    attrs,      \* the attributes of the resource data d
    local,      \* the handler's local variables
    apiCalls,   \* the API calls made so far, with their arguments
    opResult,   \* the diagnostics the handler returned
    \* ---- IntSliceToString (internal/helpers/helpers.go) ----
    spc,        \* "idle", "call", "done"
    ints,       \* the argument
    out,        \* the string returned
    \* ---- FetchVSwitchesByIDs, FetchServersByIDs ----
    fetcher,    \* "idle", "vswitch", "server": which by-IDs fetcher runs the pool
    fetched     \* what the fetcher returned: [items, err], NoFetched before

poolVars == <<ids, failing, pc, next, wg, sem, blocked, working, returned,
              items, errs, calls, result>>

diffVars == <<dpc, oldList, newList, attached0, attached, toAdd, toRemove,
              requests, dresult>>

waitVars == <<wop, wpc, wid, maxRetries, attempt, fetchCount, busyCount,
              readyCount, lastFetch, wresult>>

vlanVars == <<cpc, vlanConfig, inUse, fetchedAll, chosenVLAN, vlanAttr,
              createCalls, resourceId, cresult>>

reqVars == <<rpc, config, server, rmethod, rpath, rcontentType, request,
             received, answered, rresult>>

provVars == <<ppc, pinput, provider, pclient, pdiags>>

resVars == <<rop, opc, meta, resId, attrs, local, apiCalls, opResult>>

strVars == <<spc, ints, out>>

fetchVars == <<fetcher, fetched>>

vars == <<poolVars, diffVars, waitVars, vlanVars, reqVars, provVars, resVars,
          strVars, fetchVars>>

\* What an action of one part leaves alone: the variables of the other parts.
otherThanPool == <<diffVars, waitVars, vlanVars, reqVars, provVars, resVars, strVars, fetchVars>>
otherThanDiff == <<poolVars, waitVars, vlanVars, reqVars, provVars, resVars, strVars, fetchVars>>
otherThanWait == <<poolVars, diffVars, vlanVars, reqVars, provVars, resVars, strVars, fetchVars>>
otherThanVlan == <<poolVars, diffVars, waitVars, reqVars, provVars, resVars, strVars, fetchVars>>
otherThanReq == <<poolVars, diffVars, waitVars, vlanVars, provVars, resVars, strVars, fetchVars>>
otherThanRes == <<poolVars, diffVars, waitVars, vlanVars, reqVars, provVars, strVars, fetchVars>>
otherThanProv == <<poolVars, diffVars, waitVars, vlanVars, reqVars, resVars, strVars, fetchVars>>

(***************************************************************************)
(* runConcurrentTasks                                                      *)
(***************************************************************************)

\* Bounds of the inputs: the longest id list, and the number of distinct id
\* values.
MaxIds == 11
MaxDistinct == 3

IdValues == 1..MaxDistinct

\* const maxConcurrent = 10
maxConcurrent == 10

\* The id lists tried: lists of up to MaxIds ids that repeat one id value or
\* alternate between two (duplicates, more ids than semaphore slots), lists
\* of up to MaxDistinct distinct ids in ascending and in descending order.
Cycle(n, m) == [i \in 1..n |-> ((i - 1) % m) + 1]

IdLists ==
    { Cycle(n, m) : n \in 0..MaxIds, m \in {1, 2} }
        \cup { Cycle(n, n) : n \in 1..MaxDistinct }
        \cup { [i \in 1..n |-> n + 1 - i] : n \in 1..MaxDistinct }

Range(s) == { s[i] : i \in DOMAIN s }

\* The worker of the tests: "item-" + id on success, an error naming the id
\* on failure.
ItemOf(id) == <<"item", id>>
ErrOf(id) == <<"failed for id", id>>

\* An error value; nil is the value with isNil = TRUE.
NilError == [isNil |-> TRUE, prefix |-> "", list |-> <<>>]

\* fmt.Errorf("error fetching: %v", errs): the message is the prefix followed
\* by the messages of all collected errors.
ErrorFetching(es) == [isNil |-> FALSE, prefix |-> "error fetching: ", list |-> es]

\* Whether the message of error e contains the message m.
MessageContains(e, m) == \E i \in 1..Len(e.list) : e.list[i] = m

Zero == [k \in IdValues |-> 0]

Total(f) ==
    LET RECURSIVE Sum(_)
        Sum(S) == IF S = {} THEN 0
                  ELSE LET k == CHOOSE x \in S : TRUE IN f[k] + Sum(S \ {k})
    IN Sum(DOMAIN f)

Busy == Total(working)

PoolIdle ==
    /\ ids = <<>>
    /\ failing = {}
    /\ pc = "idle"
    /\ next = 1
    /\ wg = 0
    /\ sem = 0
    /\ blocked = Zero
    /\ working = Zero
    /\ returned = Zero
    /\ items = <<>>
    /\ errs = <<>>
    /\ calls = Zero
    /\ result = [items |-> <<>>, err |-> NilError]

\* The call runConcurrentTasks(ctx, ids, worker) has been entered: the local
\* variables are declared and sem is made.
PoolInit ==
    /\ ids \in IdLists
    /\ failing \in SUBSET Range(ids)
    /\ pc = "loop"
    /\ next = 1
    /\ wg = 0
    /\ sem = 0
    /\ blocked = Zero
    /\ working = Zero
    /\ returned = Zero
    /\ items = <<>>
    /\ errs = <<>>
    /\ calls = Zero
    /\ result = [items |-> <<>>, err |-> NilError]

\* for _, id := range ids { wg.Add(1); go func(id string) {...}(id) }
Spawn ==
    /\ pc = "loop"
    /\ next <= Len(ids)
    /\ wg' = wg + 1
    /\ blocked' = [blocked EXCEPT ![ids[next]] = @ + 1]
    /\ next' = next + 1
    /\ UNCHANGED <<ids, failing, pc, sem, working, returned, items,
                   errs, calls, result>>
    /\ UNCHANGED otherThanPool

\* The range loop is exhausted; the caller reaches wg.Wait().
LoopExit ==
    /\ pc = "loop"
    /\ next > Len(ids)
    /\ pc' = "wait"
    /\ UNCHANGED <<ids, failing, next, wg, sem, blocked, working, returned, items, errs, calls, result>>
    /\ UNCHANGED otherThanPool

\* A send that is let through while the buffer is already full.
CanAcquireOffByOne == sem <= maxConcurrent

\* Whether `sem <- struct{}{}` can proceed: the channel buffer has room.
CanAcquire == sem < maxConcurrent

\* A goroutine that short-circuits: once an error has been collected it
\* finishes without calling the worker.
AcquireUnlessFailed(k) ==
    /\ blocked[k] > 0
    /\ CanAcquire
    /\ blocked' = [blocked EXCEPT ![k] = @ - 1]
    /\ IF Len(errs) > 0
          THEN /\ wg' = wg - 1
               /\ UNCHANGED <<sem, working, calls>>
          ELSE /\ sem' = sem + 1
               /\ working' = [working EXCEPT ![k] = @ + 1]
               /\ calls' = [calls EXCEPT ![k] = @ + 1]
               /\ UNCHANGED wg
    /\ UNCHANGED <<ids, failing, pc, next, returned, items, errs, result>>
    /\ UNCHANGED otherThanPool

\* sem <- struct{}{} ; the goroutine then calls worker(ctx, id).
Acquire(k) ==
    /\ blocked[k] > 0
    /\ CanAcquire
    /\ sem' = sem + 1
    /\ blocked' = [blocked EXCEPT ![k] = @ - 1]
    /\ working' = [working EXCEPT ![k] = @ + 1]
    /\ calls' = [calls EXCEPT ![k] = @ + 1]
    /\ UNCHANGED <<ids, failing, pc, next, wg, returned, items, errs,
                   result>>
    /\ UNCHANGED otherThanPool

\* A goroutine that gives its slot back on the success path only.
ReleaseOnSuccessOnly(k) ==
    /\ working[k] > 0
    /\ sem' = IF k \in failing THEN sem ELSE sem - 1
    /\ working' = [working EXCEPT ![k] = @ - 1]
    /\ returned' = [returned EXCEPT ![k] = @ + 1]
    /\ UNCHANGED <<ids, failing, pc, next, wg, blocked, items, errs, calls,
                   result>>
    /\ UNCHANGED otherThanPool

\* item, err := worker(ctx, id) returns and the goroutine receives from sem:
\* <-sem
Release(k) ==
    /\ working[k] > 0
    /\ sem' = sem - 1
    /\ working' = [working EXCEPT ![k] = @ - 1]
    /\ returned' = [returned EXCEPT ![k] = @ + 1]
    /\ UNCHANGED <<ids, failing, pc, next, wg, blocked, items, errs, calls,
                   result>>
    /\ UNCHANGED otherThanPool

\* The collecting step without the mutex: an append that races with another
\* one overwrites the slot the other goroutine has just written.
CollectUnlocked(k) ==
    /\ returned[k] > 0
    /\ returned' = [returned EXCEPT ![k] = @ - 1]
    /\ IF k \in failing
          THEN /\ errs' = Append(errs, ErrOf(k))
               /\ items' = items
          ELSE /\ items' = IF Len(items) > 0
                              THEN [items EXCEPT ![Len(items)] = ItemOf(k)]
                              ELSE <<ItemOf(k)>>
               /\ errs' = errs
    /\ wg' = wg - 1
    /\ UNCHANGED <<ids, failing, pc, next, sem, blocked, working, calls, result>>
    /\ UNCHANGED otherThanPool

\* if err != nil { mu.Lock(); errs = append(errs, err); mu.Unlock(); return }
\* mu.Lock(); items = append(items, item); mu.Unlock()
\* and the deferred wg.Done().
Collect(k) ==
    /\ returned[k] > 0
    /\ returned' = [returned EXCEPT ![k] = @ - 1]
    /\ IF k \in failing
          THEN /\ errs' = Append(errs, ErrOf(k))
               /\ items' = items
          ELSE /\ items' = Append(items, ItemOf(k))
               /\ errs' = errs
    /\ wg' = wg - 1
    /\ UNCHANGED <<ids, failing, pc, next, sem, blocked, working, calls, result>>
    /\ UNCHANGED otherThanPool

\* A result that reports the first collected error only.
PoolResultFirstError(its, es) ==
    IF Len(es) > 0
        THEN [items |-> <<>>, err |-> ErrorFetching(<<es[1]>>)]
        ELSE [items |-> its, err |-> NilError]

\* The value returned after wg.Wait().
PoolResult(its, es) ==
    IF Len(es) > 0
        THEN [items |-> <<>>, err |-> ErrorFetching(es)]
        ELSE [items |-> its, err |-> NilError]

\* wg.Wait() returns once the counter is zero; then the result is built.
Return ==
    /\ pc = "wait"
    /\ wg = 0
    /\ result' = PoolResult(items, errs)
    /\ pc' = "done"
    /\ UNCHANGED <<ids, failing, next, wg, sem, blocked, working, returned, items, errs, calls>>
    /\ UNCHANGED otherThanPool

PoolNext ==
    \/ Spawn
    \/ LoopExit
    \/ \E k \in IdValues : Acquire(k)
    \/ \E k \in IdValues : Release(k)
    \/ \E k \in IdValues : Collect(k)
    \/ Return

\* Number of positions of the sequence s that hold x.
Count(s, x) == Cardinality({ i \in DOMAIN s : s[i] = x })

FailedIndexes == { i \in DOMAIN ids : ids[i] \in failing }

\* C1: at every moment at most 10 invocations of the worker are in progress,
\* for every id list (also one longer than 10) and every interleaving.
C1_AtMostTenWorkers == Busy <= 10

\* Ten workers run while a further goroutine waits for a slot.
C1_Witness == Busy = 10 /\ Total(blocked) > 0 /\ Len(ids) > 10

\* C2: when the worker failed for at least one id, the call returns nil items
\* and a non-nil error whose message contains the message of every failed
\* worker; the results of the successful workers are not returned.
C2_AllErrorsReported ==
    (pc = "done" /\ FailedIndexes # {}) =>
        /\ result.items = <<>>
        /\ ~result.err.isNil
        /\ \A i \in FailedIndexes : MessageContains(result.err, ErrOf(ids[i]))

\* A finished call in which two workers failed with different messages and a
\* third one succeeded.
C2_Witness ==
    /\ pc = "done"
    /\ \E i, j \in FailedIndexes : ids[i] # ids[j]
    /\ Len(items) > 0
    /\ result.items = <<>>

\* C3: when the worker succeeded for every id, the call returns a nil error
\* and a list holding, as a multiset, exactly the worker results of the ids.
C3_AllItemsReturned ==
    (pc = "done" /\ FailedIndexes = {}) =>
        /\ result.err.isNil
        /\ Len(result.items) = Len(ids)
        /\ \A k \in IdValues : Count(result.items, ItemOf(k)) = Count(ids, k)

\* A finished call over a list with duplicates, whose items came back in an
\* order other than that of ids.
C3_Witness ==
    /\ pc = "done"
    /\ FailedIndexes = {}
    /\ Len(ids) > 10
    /\ \E i \in DOMAIN ids : result.items[i] # ItemOf(ids[i])

\* C16: the worker is invoked exactly once for every element of ids,
\* duplicates included, whether or not other workers failed: never more often
\* than the id occurs, and as often as it occurs once the call has returned;
\* at return the collected items and errors together number len(ids).
C16_WorkerOncePerId ==
    /\ \A k \in IdValues : calls[k] <= Count(ids, k)
    /\ Len(items) + Len(errs) <= Len(ids)
    /\ pc = "done" =>
          /\ \A k \in IdValues : calls[k] = Count(ids, k)
          /\ Len(items) + Len(errs) = Len(ids)
          /\ Len(errs) = Cardinality(FailedIndexes)

\* A call with eleven ids, some repeated, returned after both failures and
\* successes were collected.
C16_Witness ==
    /\ pc = "done"
    /\ Len(ids) = 11
    /\ Len(errs) > 1
    /\ Len(items) > 1

\* The id lists of the calls checked for termination: one repeated id of
\* every length, and two alternating ids in a short list and in the longest.
FairIdLists ==
    { Cycle(n, 1) : n \in 0..MaxIds }
        \cup { Cycle(n, 2) : n \in {2, 3, MaxIds} }

\* C17: provided every worker invocation returns, under fair scheduling
\* the call returns for every number of ids, 0 and more than 10 included;
\* when it has returned every goroutine has acquired a slot and released it
\* again, on the success and on the error path, and none is still running.
C17_Terminates ==
    /\ <>(pc = "done")
    /\ [](pc = "done" =>
            /\ Busy = 0
            /\ Total(blocked) = 0
            /\ Total(returned) = 0
            /\ sem = 0
            /\ wg = 0
            /\ Total(calls) = Len(ids))

\* A call with more ids than slots, all of them failing, has returned with
\* every slot free.
C17_Witness ==
    /\ pc = "done"
    /\ Len(ids) > maxConcurrent
    /\ Range(ids) = failing
    /\ sem = 0
    /\ Total(calls) = Len(ids)

(***************************************************************************)
(* diffServers and manageServers                                           *)
(***************************************************************************)

\* Bounds of the inputs: server numbers 1..NumServers, lists of up to
\* MaxListLen entries (duplicates allowed).
NumServers == 3
MaxListLen == 2

Servers == 1..NumServers

ServerLists == UNION { [1..n -> Servers] : n \in 0..MaxListLen }

\* The orders in which a range over a Go map can deliver the keys S.
Orders(S) ==
    { q \in [1..Cardinality(S) -> S] : \A i, j \in DOMAIN q : q[i] = q[j] => i = j }

\* What DoRequest can give back to its caller: a response with an HTTP
\* status and a nil error, or an error (the request could not be sent).
Response(status) == [sent |-> TRUE, status |-> status]
Unsent == [sent |-> FALSE, status |-> 0]

Answers == { Response(st) : st \in {200, 201, 202, 204, 404, 500} } \cup {Unsent}

\* The API applies a request exactly when it answers with a 2xx status.
Applied(answer) == answer.sent /\ answer.status \in {200, 201, 202, 204}

DiffIdle ==
    /\ dpc = "idle"
    /\ oldList = <<>>
    /\ newList = <<>>
    /\ attached0 = {}
    /\ attached = {}
    /\ toAdd = <<>>
    /\ toRemove = <<>>
    /\ requests = <<>>
    /\ dresult = "none"

\* manageServers is entered: oldRaw, newRaw := d.GetChange("servers").
DiffInit ==
    /\ dpc = "diff"
    /\ oldList \in ServerLists
    /\ newList \in ServerLists
    /\ attached0 \in SUBSET Servers
    /\ attached = attached0
    /\ toAdd = <<>>
    /\ toRemove = <<>>
    /\ requests = <<>>
    /\ dresult = "none"

\* A diff that returns every id of the new list.
DiffToAddAll(old, new) == Range(new)

\* for id := range newMap { if !oldMap[id] { toAdd = append(toAdd, id) } }
DiffToAdd(old, new) == { id \in Range(new) : id \notin Range(old) }

\* for id := range oldMap { if !newMap[id] { toRemove = append(toRemove, id) } }
DiffToRemove(old, new) == { id \in Range(old) : id \notin Range(new) }

\* diffServers(oldList, newList): the pairs <<toAdd, toRemove>> it can return,
\* one for each iteration order of the two maps.
diffServers(old, new) ==
    Orders(DiffToAdd(old, new)) \X Orders(DiffToRemove(old, new))

\* toAdd, toRemove := diffServers(oldServers, newServers)
DiffStep ==
    /\ dpc = "diff"
    /\ \E d \in diffServers(oldList, newList) :
        /\ toAdd' = d[1]
        /\ toRemove' = d[2]
    /\ dpc' = "remove"
    /\ UNCHANGED <<oldList, newList, attached0, attached, requests, dresult>>
    /\ UNCHANGED otherThanDiff

\* RemoveVSwitchServers: nil unless the status is neither 200 nor 204.
RemoveOk(answer) == answer.sent /\ answer.status \in {200, 204}

\* AddVSwitchServers: nil unless the status is neither 200 nor 201.
AddOk(answer) == answer.sent /\ answer.status \in {200, 201}

\* if len(toRemove) > 0 { RemoveVSwitchServers(...) ; on error return it }
RemoveStep ==
    /\ dpc = "remove"
    /\ IF Len(toRemove) > 0
          THEN \E answer \in Answers :
                /\ requests' = Append(requests, [method |-> "DELETE", servers |-> toRemove])
                /\ attached' = IF Applied(answer) THEN attached \ Range(toRemove)
                                                  ELSE attached
                /\ IF RemoveOk(answer)
                      THEN dpc' = "add" /\ dresult' = dresult
                      ELSE dpc' = "done" /\ dresult' = "error removing servers from vSwitch"
          ELSE /\ dpc' = "add"
               /\ UNCHANGED <<requests, attached, dresult>>
    /\ UNCHANGED <<oldList, newList, attached0, toAdd, toRemove>>
    /\ UNCHANGED otherThanDiff

\* An attach that is skipped whenever servers were detached.
ShouldAddUnlessRemoved == Len(toAdd) > 0 /\ Len(toRemove) = 0

\* if len(toAdd) > 0
ShouldAdd == Len(toAdd) > 0

\* if len(toAdd) > 0 { AddVSwitchServers(...) ; on error return it } ; return nil
AddStep ==
    /\ dpc = "add"
    /\ IF ShouldAdd
          THEN \E answer \in Answers :
                /\ requests' = Append(requests, [method |-> "POST", servers |-> toAdd])
                /\ attached' = IF Applied(answer) THEN attached \cup Range(toAdd)
                                                  ELSE attached
                /\ dresult' = IF AddOk(answer) THEN "nil"
                                               ELSE "error adding servers to vSwitch"
          ELSE /\ dresult' = "nil"
               /\ UNCHANGED <<requests, attached>>
    /\ dpc' = "done"
    /\ UNCHANGED <<oldList, newList, attached0, toAdd, toRemove>>
    /\ UNCHANGED otherThanDiff

DiffNext ==
    \/ DiffStep
    \/ RemoveStep
    \/ AddStep

\* C4: diffServers returns toAdd equal, as a set, to the ids of newList that
\* are not in oldList and toRemove equal, as a set, to the ids of oldList that
\* are not in newList; both are empty when the lists hold the same ids, and
\* an empty old (new) list gives toAdd = newList (toRemove = oldList).
C4_DiffIsSetDifference ==
    dpc \in {"remove", "add", "done"} =>
        /\ Range(toAdd) = Range(newList) \ Range(oldList)
        /\ Range(toRemove) = Range(oldList) \ Range(newList)
        /\ Range(oldList) = Range(newList) => (toAdd = <<>> /\ toRemove = <<>>)
        /\ oldList = <<>> => Range(toAdd) = Range(newList)
        /\ newList = <<>> => Range(toRemove) = Range(oldList)

\* diffServers has run on two lists that share a server and each hold one
\* the other lacks.
C4_Witness ==
    /\ dpc = "remove"
    /\ toAdd # <<>>
    /\ toRemove # <<>>
    /\ Range(oldList) \cap Range(newList) # {}

SentServers == UNION { Range(requests[i].servers) : i \in DOMAIN requests }

\* C5: when the servers attached on the API are those of the old list and
\* manageServers returns without error, the attached servers are those of the
\* new list, and no server present in both lists was named in a request.
C5_AttachedBecomesNew ==
    (dpc = "done" /\ dresult = "nil" /\ attached0 = Range(oldList)) =>
        /\ attached = Range(newList)
        /\ SentServers \cap (Range(oldList) \cap Range(newList)) = {}

\* A successful update that detached one server, attached another and kept
\* a third.
C5_Witness ==
    /\ dpc = "done"
    /\ dresult = "nil"
    /\ attached0 = Range(oldList)
    /\ Len(requests) = 2
    /\ Range(oldList) \cap Range(newList) # {}

(***************************************************************************)
(* WaitForVSwitchReady, SetFirewall and waitForFirewallActive              *)
(***************************************************************************)

\* Bounds of the inputs: small retry budgets tried besides the program's
\* own, and the number of servers in a fetched vSwitch.
MaxRetriesTried == 3
MaxAttached == 2

\* waitMaxRetries of package client, used by the variants without a
\* maxRetries parameter.
waitMaxRetries == 60

\* waitMaxRetries of package vswitch, which the resource passes as maxRetries.
vswitchWaitMaxRetries == 20

RetryBudgets == (0..MaxRetriesTried) \cup {vswitchWaitMaxRetries, waitMaxRetries}

ServerStatuses == {"ready", "in process", "processing", "failed"}

StatusLists == UNION { [1..n -> ServerStatuses] : n \in 0..MaxAttached }

FirewallStatuses == {"active", "in process", "disabled"}

NoFetch == [err |-> FALSE, servers |-> <<>>, status |-> ""]

\* FetchVSwitchByID: an error unless the request was sent and answered 200;
\* otherwise the decoded vSwitch, of which the loop reads Servers.
FetchVSwitchByID(answer, servers) ==
    IF answer.sent /\ answer.status = 200
        THEN [err |-> FALSE, servers |-> servers, status |-> ""]
        ELSE [err |-> TRUE, servers |-> <<>>, status |-> ""]

\* GetFirewall: an error unless the request was sent and answered 200 or 202;
\* otherwise the decoded firewall, of which the loop reads Status.
GetFirewall(answer, status) ==
    IF answer.sent /\ answer.status \in {200, 202}
        THEN [err |-> FALSE, servers |-> <<>>, status |-> status]
        ELSE [err |-> TRUE, servers |-> <<>>, status |-> ""]

\* A readiness test that looks at the first server only.
isVSwitchReadyFirstOnly(servers) ==
    servers = <<>> \/ servers[1] # "processing"

\* isVSwitchReady: no server has status "processing".
RECURSIVE isVSwitchReady(_)
isVSwitchReady(servers) ==
    IF servers = <<>> THEN TRUE
    ELSE IF Head(servers) = "processing" THEN FALSE
    ELSE isVSwitchReady(Tail(servers))

\* fmt.Errorf("timeout waiting for vSwitch %s to become ready", id)
VSwitchTimeout(id) == <<"timeout waiting for vSwitch ", id, " to become ready">>

\* fmt.Errorf("timeout waiting for firewall to become active on ip: %s", ip)
FirewallTimeout(ip) == <<"timeout waiting for firewall to become active on ip: ", ip>>

WaitIdle ==
    /\ wop = "idle"
    /\ wpc = "idle"
    /\ wid = ""
    /\ maxRetries = 0
    /\ attempt = 0
    /\ fetchCount = 0
    /\ busyCount = 0
    /\ readyCount = 0
    /\ lastFetch = NoFetch
    /\ wresult = <<"none">>

\* Either WaitForVSwitchReady(ctx, id, maxRetries, waitTime) is entered, or
\* SetFirewall(ctx, firewall) is, whose wait uses waitMaxRetries.
WaitInit ==
    /\ \/ /\ wop = "vswitch"
          /\ wpc = "fetch"
          /\ wid \in {"4321", "4322"}
          /\ maxRetries \in RetryBudgets
       \/ /\ wop = "firewall"
          /\ wpc = "post"
          /\ wid \in {"1.2.3.4", "5.6.7.8"}
          /\ maxRetries \in RetryBudgets
    /\ attempt = 0
    /\ fetchCount = 0
    /\ busyCount = 0
    /\ readyCount = 0
    /\ lastFetch = NoFetch
    /\ wresult = <<"none">>

\* A loop that runs one iteration more than its budget.
LoopContinuesOneMore == attempt <= maxRetries

\* for range maxRetries: whether another iteration starts.
LoopContinues == attempt < maxRetries

\* One iteration of WaitForVSwitchReady up to the sleep: fetch, return the
\* error of a failed fetch, return nil when ready.
VSwitchFetch ==
    /\ wop = "vswitch"
    /\ wpc = "fetch"
    /\ LoopContinues
    /\ \E answer \in Answers, servers \in StatusLists :
        LET vsw == FetchVSwitchByID(answer, servers) IN
        /\ lastFetch' = vsw
        /\ fetchCount' = fetchCount + 1
        /\ IF vsw.err
              THEN /\ wresult' = <<"error fetching VSwitch while waiting">>
                   /\ wpc' = "done"
                   /\ UNCHANGED <<busyCount, readyCount>>
              ELSE IF isVSwitchReady(vsw.servers)
              THEN /\ wresult' = <<"nil">>
                   /\ wpc' = "done"
                   /\ readyCount' = readyCount + 1
                   /\ UNCHANGED busyCount
              ELSE /\ wpc' = "sleep"
                   /\ busyCount' = busyCount + 1
                   /\ UNCHANGED <<wresult, readyCount>>
    /\ UNCHANGED <<wop, wid, maxRetries, attempt>>
    /\ UNCHANGED otherThanWait

\* time.Sleep(waitTime) ends the iteration.
Sleep ==
    /\ wpc = "sleep"
    /\ attempt' = attempt + 1
    /\ wpc' = "fetch"
    /\ UNCHANGED <<wop, wid, maxRetries, fetchCount, busyCount, readyCount,
                   lastFetch, wresult>>
    /\ UNCHANGED otherThanWait

\* The loop of WaitForVSwitchReady is exhausted.
VSwitchGiveUp ==
    /\ wop = "vswitch"
    /\ wpc = "fetch"
    /\ ~LoopContinues
    /\ wresult' = VSwitchTimeout(wid)
    /\ wpc' = "done"
    /\ UNCHANGED <<wop, wid, maxRetries, attempt, fetchCount, busyCount,
                   readyCount, lastFetch>>
    /\ UNCHANGED otherThanWait

\* SetFirewall accepts the answers 200 and 202 to its POST.
PostAccepted(answer) == answer.sent /\ answer.status \in {200, 202}

\* SetFirewall up to the wait: the POST of the rules; an error unless it was
\* answered 200 or 202.
FirewallPost ==
    /\ wop = "firewall"
    /\ wpc = "post"
    /\ \E answer \in Answers :
        IF PostAccepted(answer)
            THEN /\ wpc' = "fetch"
                 /\ wresult' = wresult
            ELSE /\ wpc' = "done"
                 /\ wresult' = <<"failed to set firewall">>
    /\ UNCHANGED <<wop, wid, maxRetries, attempt, fetchCount, busyCount,
                   readyCount, lastFetch>>
    /\ UNCHANGED otherThanWait

\* One iteration of waitForFirewallActive up to the sleep.
FirewallGet ==
    /\ wop = "firewall"
    /\ wpc = "fetch"
    /\ LoopContinues
    /\ \E answer \in Answers, status \in FirewallStatuses :
        LET fw == GetFirewall(answer, status) IN
        /\ lastFetch' = fw
        /\ fetchCount' = fetchCount + 1
        /\ IF fw.err
              THEN /\ wresult' = <<"error checking firewall status">>
                   /\ wpc' = "done"
                   /\ UNCHANGED <<busyCount, readyCount>>
              ELSE IF fw.status = "active"
              THEN /\ wresult' = <<"nil">>
                   /\ wpc' = "done"
                   /\ readyCount' = readyCount + 1
                   /\ UNCHANGED busyCount
              ELSE /\ wpc' = "sleep"
                   /\ busyCount' = busyCount + 1
                   /\ UNCHANGED <<wresult, readyCount>>
    /\ UNCHANGED <<wop, wid, maxRetries, attempt>>
    /\ UNCHANGED otherThanWait

\* The loop of waitForFirewallActive is exhausted.
FirewallGiveUp ==
    /\ wop = "firewall"
    /\ wpc = "fetch"
    /\ ~LoopContinues
    /\ wresult' = FirewallTimeout(wid)
    /\ wpc' = "done"
    /\ UNCHANGED <<wop, wid, maxRetries, attempt, fetchCount, busyCount,
                   readyCount, lastFetch>>
    /\ UNCHANGED otherThanWait

WaitNext ==
    \/ VSwitchFetch
    \/ Sleep
    \/ VSwitchGiveUp
    \/ FirewallPost
    \/ FirewallGet
    \/ FirewallGiveUp

\* C6: WaitForVSwitchReady fetches the vSwitch at most maxRetries times (at
\* most waitMaxRetries = 60 times in the variant without the parameter); it
\* returns nil right after the first fetch in which no server is "processing"
\* and fetches no more; when every one of the maxRetries fetches showed a
\* server in "processing" it returns the timeout error naming the vSwitch.
C6_VSwitchBoundedPoll ==
    wop = "vswitch" =>
        /\ fetchCount <= maxRetries
        /\ (maxRetries = waitMaxRetries => fetchCount <= 60)
        /\ readyCount <= 1
        /\ readyCount = 1 =>
              /\ wpc = "done"
              /\ wresult = <<"nil">>
              /\ ~lastFetch.err
              /\ \A i \in DOMAIN lastFetch.servers : lastFetch.servers[i] # "processing"
              /\ fetchCount = busyCount + 1
        /\ wresult = <<"nil">> => readyCount = 1
        /\ (wpc = "done" /\ busyCount = maxRetries) =>
              wresult = <<"timeout waiting for vSwitch ", wid, " to become ready">>

\* The wait with the budget of 60 gave up after 60 fetches that all showed a
\* server in "processing".
C6_Witness ==
    /\ wop = "vswitch"
    /\ wpc = "done"
    /\ maxRetries = 60
    /\ fetchCount = 60
    /\ busyCount = 60
    /\ wresult = VSwitchTimeout(wid)

\* C7 as stated: after the POST was answered 200 or 202 the wait issues at
\* most waitMaxRetries GETs, returns nil right after the first GET whose
\* status is "active", and returns a timeout error when none of the
\* waitMaxRetries GETs reports "active".
C7_TimeoutWheneverNoneActive ==
    (wop = "firewall" /\ maxRetries = waitMaxRetries) =>
        /\ fetchCount <= waitMaxRetries
        /\ readyCount = 1 => (wpc = "done" /\ wresult = <<"nil">>)
        /\ (wpc = "done" /\ fetchCount = waitMaxRetries /\ readyCount = 0) =>
              wresult = FirewallTimeout(wid)

\* C7, amended: after the POST was answered 200 or 202 the wait issues at
\* most waitMaxRetries GETs and returns nil right after the first GET whose
\* status is "active"; it returns the timeout error when all waitMaxRetries
\* GETs succeeded with a status other than "active"; a GET that fails ends
\* the wait at once with the error "error checking firewall status".
C7_FirewallBoundedPoll ==
    (wop = "firewall" /\ maxRetries = waitMaxRetries) =>
        /\ fetchCount <= waitMaxRetries
        /\ fetchCount > 0 => wpc # "post"
        /\ readyCount <= 1
        /\ readyCount = 1 =>
              /\ wpc = "done"
              /\ wresult = <<"nil">>
              /\ lastFetch.status = "active"
              /\ fetchCount = busyCount + 1
        /\ wresult = <<"nil">> => readyCount = 1
        /\ (wpc = "done" /\ busyCount = waitMaxRetries) =>
              wresult = FirewallTimeout(wid)
        /\ (wpc = "done" /\ fetchCount > 0 /\ lastFetch.err) =>
              wresult = <<"error checking firewall status">>

\* The firewall wait gave up after 60 GETs none of which showed "active".
C7_Witness ==
    /\ wop = "firewall"
    /\ wpc = "done"
    /\ maxRetries = 60
    /\ busyCount = 60
    /\ wresult = FirewallTimeout(wid)

\* The firewall wait returned nil on a later GET, after GETs that showed the
\* firewall "in process".
C7_WitnessActive ==
    /\ wop = "firewall"
    /\ wresult = <<"nil">>
    /\ busyCount > 0

(***************************************************************************)
(* resourceCreate of the vSwitch resource and pickRandomFreeVLAN           *)
(***************************************************************************)

\* for vlan := 4000; vlan <= 4091; vlan++
VlanMin == 4000
VlanMax == 4091

VlanRange == VlanMin..VlanMax

\* The sets of VLANs in use tried: the first k VLANs of the range, with or
\* without VLANs outside the range, and the whole range but one VLAN.
UsedVlanSets ==
    { (VlanMin..(VlanMin + k - 1)) \cup x :
        k \in 0..(VlanMax - VlanMin + 1), x \in {{}, {VlanMin - 1, VlanMax + 1}} }
    \cup { VlanRange \ {h} : h \in VlanRange }

\* The values of the "vlan" attribute tried; 0 is the zero value, for which
\* d.GetOk reports the attribute as not provided.
VlanConfigs == {0, VlanMin, VlanMin + 1, VlanMax + 9}

\* A free list that does not consult the used map.
FreeVLANsIgnoringUsed(used) == [i \in 1..(VlanMax - VlanMin + 1) |-> VlanMin + i - 1]

\* The free list of pickRandomFreeVLAN: the loop appends, for vlan from 4000
\* to 4091, every vlan with !used[vlan]; the result lists the unused VLANs of
\* the range in ascending order.
FreeVLANs(used) ==
    LET unused == { vlan \in VlanMin..VlanMax : vlan \notin used }
    IN [i \in 1..Cardinality(unused) |->
            CHOOSE vlan \in unused :
                Cardinality({ w \in unused : w < vlan }) = i - 1]

VlanIdle ==
    /\ cpc = "idle"
    /\ vlanConfig = 0
    /\ inUse = {}
    /\ fetchedAll = "none"
    /\ chosenVLAN = 0
    /\ vlanAttr = 0
    /\ createCalls = <<>>
    /\ resourceId = ""
    /\ cresult = <<"none">>

\* resourceCreate is entered.
VlanInit ==
    /\ cpc = "pick"
    /\ vlanConfig \in VlanConfigs
    /\ inUse \in UsedVlanSets
    /\ fetchedAll = "none"
    /\ chosenVLAN = 0
    /\ vlanAttr = vlanConfig
    /\ createCalls = <<>>
    /\ resourceId = ""
    /\ cresult = <<"none">>

\* FetchAllVSwitches: an error unless the request was sent and answered 200.
FetchAllOk(answer) == answer.sent /\ answer.status = 200

\* if vlan, vlanProvided := d.GetOk("vlan"); vlanProvided { chosenVLAN = vlan }
UseConfiguredVLAN ==
    /\ cpc = "pick"
    /\ vlanConfig # 0
    /\ chosenVLAN' = vlanConfig
    /\ cpc' = "create"
    /\ UNCHANGED <<vlanConfig, inUse, fetchedAll, vlanAttr, createCalls,
                   resourceId, cresult>>
    /\ UNCHANGED otherThanVlan

\* else { freeVLAN, err := pickRandomFreeVLAN(ctx, hClient) ... }: the fetch
\* of all vSwitches, the free list, the random index and d.Set("vlan", ...).
PickRandomFreeVLAN ==
    /\ cpc = "pick"
    /\ vlanConfig = 0
    /\ \E answer \in Answers :
        IF ~FetchAllOk(answer)
            THEN /\ fetchedAll' = "error"
                 /\ cresult' = <<"failed to pick random free VLAN", "fetch all vswitches error">>
                 /\ cpc' = "done"
                 /\ UNCHANGED <<chosenVLAN, vlanAttr>>
            ELSE LET free == FreeVLANs(inUse) IN
                 /\ fetchedAll' = "ok"
                 /\ IF Len(free) = 0
                       THEN /\ cresult' = <<"failed to pick random free VLAN",
                                            "no free VLAN in [4000..4091], all are taken">>
                            /\ cpc' = "done"
                            /\ UNCHANGED <<chosenVLAN, vlanAttr>>
                       ELSE \/ \E idx \in 0..(Len(free) - 1) :
                                 /\ chosenVLAN' = free[idx + 1]
                                 /\ vlanAttr' = free[idx + 1]
                                 /\ cpc' = "create"
                                 /\ cresult' = cresult
                            \/ /\ cresult' = <<"failed to pick random free VLAN",
                                               "generating a random index">>
                               /\ cpc' = "done"
                               /\ UNCHANGED <<chosenVLAN, vlanAttr>>
    /\ UNCHANGED <<vlanConfig, inUse, createCalls, resourceId>>
    /\ UNCHANGED otherThanVlan

\* CreateVSwitch: nil unless the status is neither 200 nor 201.
CreateOk(answer) == answer.sent /\ answer.status \in {200, 201}

\* vsw, err := hClient.CreateVSwitch(ctx, name, chosenVLAN)
CreateVSwitch ==
    /\ cpc = "create"
    /\ createCalls' = Append(createCalls, chosenVLAN)
    /\ \E answer \in Answers :
        IF CreateOk(answer)
            THEN cpc' = "finish" /\ cresult' = cresult
            ELSE cpc' = "done" /\ cresult' = <<"error creating vSwitch">>
    /\ UNCHANGED <<vlanConfig, inUse, fetchedAll, chosenVLAN, vlanAttr, resourceId>>
    /\ UNCHANGED otherThanVlan

\* The rest of resourceCreate: AddVSwitchServers for the configured servers,
\* WaitForVSwitchReady, d.SetId and resourceRead, each of which can fail.
FinishCreate ==
    /\ cpc = "finish"
    /\ \E outcome \in {"error adding servers to vSwitch",
                       "error waiting for vSwitch readiness after create",
                       "error reading vSwitch", "nil"} :
        /\ cresult' = <<outcome>>
        /\ resourceId' = IF outcome \in {"error reading vSwitch", "nil"}
                            THEN "vsw" ELSE resourceId
    /\ cpc' = "done"
    /\ UNCHANGED <<vlanConfig, inUse, fetchedAll, chosenVLAN, vlanAttr, createCalls>>
    /\ UNCHANGED otherThanVlan

VlanNext ==
    \/ UseConfiguredVLAN
    \/ PickRandomFreeVLAN
    \/ CreateVSwitch
    \/ FinishCreate

\* C8: with no vlan configured, the VLAN picked for the create is in
\* 4000..4091 and is not the VLAN of a vSwitch that FetchAllVSwitches
\* returned; when all 92 VLANs of the range are in use, the create returns
\* the error "no free VLAN in [4000..4091], all are taken" and CreateVSwitch
\* is not called.
C8_PickedVlanIsFree ==
    vlanConfig = 0 =>
        /\ cpc \in {"create", "finish"} =>
              /\ chosenVLAN \in 4000..4091
              /\ chosenVLAN \notin inUse
              /\ vlanAttr = chosenVLAN
        /\ \A i \in DOMAIN createCalls :
              createCalls[i] \in 4000..4091 /\ createCalls[i] \notin inUse
        /\ (cpc = "done" /\ fetchedAll = "ok" /\ (4000..4091) \subseteq inUse) =>
              /\ cresult[2] = "no free VLAN in [4000..4091], all are taken"
              /\ createCalls = <<>>

\* CreateVSwitch was called with the one VLAN of the range that was free.
C8_Witness ==
    /\ vlanConfig = 0
    /\ Cardinality(inUse \cap VlanRange) = 91
    /\ createCalls = <<chosenVLAN>>
    /\ chosenVLAN \notin {VlanMin, VlanMax}

\* The create failed because all 92 VLANs were taken.
C8_WitnessAllTaken ==
    /\ vlanConfig = 0
    /\ cpc = "done"
    /\ VlanRange \subseteq inUse
    /\ cresult = <<"failed to pick random free VLAN",
                   "no free VLAN in [4000..4091], all are taken">>

(***************************************************************************)
(* DoRequest                                                               *)
(***************************************************************************)

\* The credentials the test servers accept.
testUsername == "testuser"
testPassword == "testpassword"

Methods == {"GET", "POST", "BAD METHOD"}
Paths == {"", "/", "/server", "/post"}
ContentTypes == {"", "application/json"}
BaseURLs == {"http://127.0.0.1:8080", "http://%zz"}
Usernames == {testUsername, "wrongUser"}
Passwords == {testPassword, "wrongPass"}

\* req.SetBasicAuth(username, password): the Authorization header is "Basic "
\* followed by the (base64-encoded, here plain) text username:password.
BasicAuth(username, password) == "Basic " \o username \o ":" \o password

\* http.NewRequestWithContext fails for a method that is not a token and for
\* a URL that does not parse.
ValidMethod(method) == method \in {"GET", "POST"}
ValidURL(url) == url \in { base \o path : base \in {"http://127.0.0.1:8080"}, path \in Paths }

NoRequest == [method |-> "", url |-> "", header |-> <<>>]

\* req.SetBasicAuth(c.Config.Username, c.Config.Password)
\* if contentType != "" { req.Header.Set("Content-Type", contentType) }
RequestHeader(username, password, contentType) ==
    IF contentType # ""
        THEN ("Authorization" :> BasicAuth(username, password))
                @@ ("Content-Type" :> contentType)
        ELSE ("Authorization" :> BasicAuth(username, password))

\* The handler of setupMockServer: 401 unless the Authorization header is the
\* expected one, 200 otherwise.
BasicServerStatus(req) ==
    IF req.header["Authorization"] # BasicAuth(testUsername, testPassword)
        THEN 401 ELSE 200

\* The handler of mockServer: 400 when no route of the OpenAPI document
\* matches or the request does not validate (authentication included), 200
\* with the example otherwise.
OpenAPIServerStatus(req) ==
    IF ~(req.method = "GET" /\ req.url = "http://127.0.0.1:8080/server")
        THEN 400
    ELSE IF req.header["Authorization"] # BasicAuth(testUsername, testPassword)
        THEN 400
    ELSE 200

ServerStatus(kind, req) ==
    IF kind = "basic" THEN BasicServerStatus(req) ELSE OpenAPIServerStatus(req)

NoResult == [resp |-> 0, err |-> "none"]

\* What DoRequest returns for a response with a 4xx or 5xx status if it
\* turned such a status into an error.
ResponseResultErrorOnStatus(status) ==
    IF status >= 400
        THEN [resp |-> 0, err |-> "error making request"]
        ELSE [resp |-> status, err |-> "nil"]

\* return resp, nil
ResponseResult(status) == [resp |-> status, err |-> "nil"]

ReqIdle ==
    /\ rpc = "idle"
    /\ config = [Username |-> "", Password |-> "", BaseURL |-> ""]
    /\ server = "basic"
    /\ rmethod = ""
    /\ rpath = ""
    /\ rcontentType = ""
    /\ request = NoRequest
    /\ received = <<>>
    /\ answered = 0
    /\ rresult = NoResult

\* DoRequest(ctx, method, path, body, contentType) is entered on a client
\* made by New(config).
ReqInit ==
    /\ rpc = "build"
    /\ config \in [Username : Usernames, Password : Passwords, BaseURL : BaseURLs]
    /\ server \in {"basic", "openapi"}
    /\ rmethod \in Methods
    /\ rpath \in Paths
    /\ rcontentType \in ContentTypes
    /\ request = NoRequest
    /\ received = <<>>
    /\ answered = 0
    /\ rresult = NoResult

\* http.NewRequestWithContext, SetBasicAuth and the Content-Type header.
BuildRequest ==
    /\ rpc = "build"
    /\ LET url == config.BaseURL \o rpath IN
       IF ValidMethod(rmethod) /\ ValidURL(url)
          THEN /\ request' = [method |-> rmethod, url |-> url,
                              header |-> RequestHeader(config.Username,
                                                       config.Password, rcontentType)]
               /\ rpc' = "send"
               /\ rresult' = rresult
          ELSE /\ rresult' = [resp |-> 0, err |-> "error creating request"]
               /\ rpc' = "done"
               /\ request' = request
    /\ UNCHANGED <<config, server, rmethod, rpath, rcontentType, received, answered>>
    /\ UNCHANGED otherThanReq

\* resp, err := c.Client.Do(req): the request reaches the server, which
\* answers with some status, or it cannot be sent.
SendRequest ==
    /\ rpc = "send"
    /\ \/ /\ received' = Append(received, request)
          /\ answered' = ServerStatus(server, request)
          /\ rresult' = ResponseResult(ServerStatus(server, request))
       \/ /\ rresult' = [resp |-> 0, err |-> "error making request"]
          /\ UNCHANGED <<received, answered>>
    /\ rpc' = "done"
    /\ UNCHANGED <<config, server, rmethod, rpath, rcontentType, request>>
    /\ UNCHANGED otherThanReq

ReqNext ==
    \/ BuildRequest
    \/ SendRequest

\* C9: DoRequest attaches the configured username and password as HTTP Basic
\* auth to every request and sets Content-Type only when contentType is not
\* empty; a response with an HTTP error status (401, 400) is returned as a
\* response with a nil error, so the error is non-nil only when the request
\* could not be built or sent.
C9_DoRequestContract ==
    /\ \A i \in DOMAIN received :
          /\ received[i].header["Authorization"]
                = "Basic " \o config.Username \o ":" \o config.Password
          /\ ("Content-Type" \in DOMAIN received[i].header) <=> (rcontentType # "")
          /\ rcontentType # "" => received[i].header["Content-Type"] = rcontentType
    /\ (rpc = "done" /\ answered # 0) =>
          (rresult.err = "nil" /\ rresult.resp = answered)
    /\ (rpc = "done" /\ rresult.err # "nil") =>
          /\ received = <<>>
          /\ rresult.err \in {"error creating request", "error making request"}
          /\ rresult.resp = 0

\* A request with wrong credentials and no content type was answered 401 and
\* came back as a response.
C9_Witness ==
    /\ rpc = "done"
    /\ config.Username = "wrongUser"
    /\ rcontentType = ""
    /\ answered = 401
    /\ rresult = [resp |-> 401, err |-> "nil"]

(***************************************************************************)
(* Provider and providerConfigure                                          *)
(***************************************************************************)

ProviderInputs ==
    [username : {"", testUsername, "wrongUser"},
     password : {"", testPassword, "wrongPass"},
     url : {"", "https://robot-ws.your-server.de", "http://127.0.0.1:8080", "http://%zz"}]

NoProvider == [ResourcesMap |-> {}, DataSourcesMap |-> {}]

NoClient == [isNil |-> TRUE, Username |-> "", Password |-> "", BaseURL |-> ""]

\* Provider(): the keys of ResourcesMap and of DataSourcesMap.
Provider ==
    [ResourcesMap |-> {"hetznerrobot_firewall", "hetznerrobot_os_rescue",
                       "hetznerrobot_vswitch", "hetznerrobot_vswitch_servers"},
     DataSourcesMap |-> {"hetznerrobot_server", "hetznerrobot_vswitch"}]

\* provider.Resources(): the names of the registered resource types.
Resources(p) == p.ResourcesMap

\* expectedResources of TestProvider_Resources.
expectedResources ==
    {"hetznerrobot_firewall", "hetznerrobot_os_rescue", "hetznerrobot_vswitch"}

\* A providerConfigure that refuses only when both credentials are empty.
providerConfigureBothEmpty(in) ==
    IF in.username = "" /\ in.password = ""
        THEN [client |-> NoClient,
              diags |-> <<[Severity |-> "Error", Summary |-> "Missing credentials"]>>]
        ELSE [client |-> [isNil |-> FALSE, Username |-> in.username,
                          Password |-> in.password, BaseURL |-> in.url],
              diags |-> <<>>]

\* providerConfigure: the pair (client, diags).
providerConfigure(in) ==
    IF in.username = "" \/ in.password = ""
        THEN [client |-> NoClient,
              diags |-> <<[Severity |-> "Error", Summary |-> "Missing credentials"]>>]
        ELSE [client |-> [isNil |-> FALSE, Username |-> in.username,
                          Password |-> in.password, BaseURL |-> in.url],
              diags |-> <<>>]

ProvIdle ==
    /\ ppc = "idle"
    /\ pinput = [username |-> "", password |-> "", url |-> ""]
    /\ provider = NoProvider
    /\ pclient = NoClient
    /\ pdiags = <<>>

\* The plugin is started with some provider configuration.
ProvInit ==
    /\ ppc = "start"
    /\ pinput \in ProviderInputs
    /\ provider = NoProvider
    /\ pclient = NoClient
    /\ pdiags = <<>>

\* provider := Provider()
NewProvider ==
    /\ ppc = "start"
    /\ provider' = Provider
    /\ ppc' = "built"
    /\ UNCHANGED <<pinput, pclient, pdiags>>
    /\ UNCHANGED otherThanProv

\* The SDK calls ConfigureContextFunc with the provider configuration.
Configure ==
    /\ ppc = "built"
    /\ pclient' = providerConfigure(pinput).client
    /\ pdiags' = providerConfigure(pinput).diags
    /\ ppc' = "configured"
    /\ UNCHANGED <<pinput, provider>>
    /\ UNCHANGED otherThanProv

ProvNext ==
    \/ NewProvider
    \/ Configure

\* C10: the set of resource types registered by Provider() is exactly
\* {hetznerrobot_firewall, hetznerrobot_os_rescue, hetznerrobot_vswitch}: it
\* has three elements and each of them is one of these three.
C10_ExactlyThreeResources ==
    ppc \in {"built", "configured"} =>
        /\ Cardinality(Resources(provider)) = 3
        /\ \A name \in Resources(provider) :
              name \in {"hetznerrobot_firewall", "hetznerrobot_os_rescue",
                        "hetznerrobot_vswitch"}

\* C11: providerConfigure returns a nil client and exactly one Error
\* diagnostic "Missing credentials" when username or password is empty;
\* otherwise it returns no diagnostics and a client whose config holds exactly
\* the given username, password and url.
C11_ConfigureContract ==
    ppc = "configured" =>
        IF pinput.username = "" \/ pinput.password = ""
            THEN /\ pclient.isNil
                 /\ Len(pdiags) = 1
                 /\ pdiags[1].Severity = "Error"
                 /\ pdiags[1].Summary = "Missing credentials"
            ELSE /\ pdiags = <<>>
                 /\ ~pclient.isNil
                 /\ pclient.Username = pinput.username
                 /\ pclient.Password = pinput.password
                 /\ pclient.BaseURL = pinput.url

\* The provider was configured with a username and an empty password.
C11_Witness ==
    /\ ppc = "configured"
    /\ pinput.username # ""
    /\ pinput.password = ""
    /\ pclient.isNil

\* The provider was configured with both credentials and got a client.
C11_WitnessClient ==
    /\ ppc = "configured"
    /\ pinput.username # ""
    /\ pinput.password # ""
    /\ ~pclient.isNil

(***************************************************************************)
(* Resource handlers: resourceDelete of the vSwitch and of the firewall,   *)
(* resourceOSRescueCreate                                                  *)
(***************************************************************************)

ResIdle ==
    /\ rop = "idle"
    /\ opc = "idle"
    /\ meta = "client"
    /\ resId = ""
    /\ attrs = [set |-> FALSE]
    /\ local = [set |-> FALSE]
    /\ apiCalls = <<>>
    /\ opResult = <<"none">>

\* resourceDelete(ctx, d, meta) of the vSwitch resource is entered for an
\* existing resource.
VSwitchDeleteInit ==
    /\ rop = "vswitchDelete"
    /\ opc = "start"
    /\ meta \in {"client", "other"}
    /\ resId \in {"4321", "4322", "4323"}
    /\ attrs \in [cancellation_date : {"", "now", "2025-12-31", "2026-01-15"}]
    /\ local = [set |-> FALSE]
    /\ apiCalls = <<>>
    /\ opResult = <<"none">>

\* A delete that cancels at once whatever the attribute says.
cancellationDateAlwaysNow(attr) == "now"

\* cancellationDate := d.Get("cancellation_date"); "now" when it is empty.
cancellationDate(attr) == IF attr = "" THEN "now" ELSE attr

\* DeleteVSwitch returns nil for the answers 204 and 200 only.
DeleteOk(answer) == answer.sent /\ answer.status \in {204, 200}

\* resourceDelete up to the request of DeleteVSwitch.
VSwitchDeleteCall ==
    /\ rop = "vswitchDelete"
    /\ opc = "start"
    /\ IF meta # "client"
          THEN /\ opResult' = <<"invalid client type">>
               /\ opc' = "done"
               /\ UNCHANGED <<local, apiCalls>>
          ELSE /\ local' = [id |-> resId,
                            cancellationDate |-> cancellationDate(attrs.cancellation_date),
                            answer |-> Unsent]
               /\ apiCalls' = Append(apiCalls,
                      [call |-> "DeleteVSwitch", id |-> resId,
                       cancellation_date |-> cancellationDate(attrs.cancellation_date)])
               /\ opc' = "called"
               /\ UNCHANGED opResult
    /\ UNCHANGED <<rop, meta, resId, attrs>>
    /\ UNCHANGED otherThanRes

\* DeleteVSwitch returns and resourceDelete finishes.
VSwitchDeleteReturn ==
    /\ rop = "vswitchDelete"
    /\ opc = "called"
    /\ \E answer \in Answers :
        /\ local' = [local EXCEPT !.answer = answer]
        /\ IF DeleteOk(answer)
              THEN /\ resId' = ""
                   /\ opResult' = <<"nil">>
              ELSE /\ opResult' = <<"error deleting vSwitch">>
                   /\ UNCHANGED resId
    /\ opc' = "done"
    /\ UNCHANGED <<rop, meta, attrs, apiCalls>>
    /\ UNCHANGED otherThanRes

VSwitchDeleteNext ==
    \/ VSwitchDeleteCall
    \/ VSwitchDeleteReturn

\* C12: deleting a vSwitch sends cancellation_date "now" when the attribute
\* is empty and the configured value otherwise; the resource ID is cleared
\* only when DeleteVSwitch succeeded (status 200 or 204); when it fails the
\* delete returns an error and the ID is unchanged.
C12_VSwitchDelete ==
    rop = "vswitchDelete" =>
        /\ Len(apiCalls) <= 1
        /\ \A i \in DOMAIN apiCalls :
              /\ apiCalls[i].call = "DeleteVSwitch"
              /\ attrs.cancellation_date = "" => apiCalls[i].cancellation_date = "now"
              /\ attrs.cancellation_date # "" =>
                    apiCalls[i].cancellation_date = attrs.cancellation_date
        /\ resId = "" =>
              /\ opc = "done"
              /\ local.answer.sent
              /\ local.answer.status \in {200, 204}
              /\ opResult = <<"nil">>
        /\ (opc = "done" /\ apiCalls # <<>>
              /\ ~(local.answer.sent /\ local.answer.status \in {200, 204})) =>
              /\ opResult = <<"error deleting vSwitch">>
              /\ resId = local.id
        /\ opc # "done" => resId # ""

\* A delete with a configured cancellation date was answered 204 and the ID
\* is cleared.
C12_Witness ==
    /\ rop = "vswitchDelete"
    /\ opc = "done"
    /\ attrs.cancellation_date = "2025-12-31"
    /\ apiCalls # <<>>
    /\ local.answer = Response(204)
    /\ resId = ""

\* A delete with no cancellation date failed and the ID is still set.
C12_WitnessFailed ==
    /\ rop = "vswitchDelete"
    /\ opc = "done"
    /\ attrs.cancellation_date = ""
    /\ opResult = <<"error deleting vSwitch">>
    /\ resId # ""

\* ---- resourceDelete of the firewall resource ----

ServerIPs == {"1.2.3.4", "5.6.7.8"}

\* The maxRetries that resourceDelete passes to SetFirewall.
firewallDeleteRetries == 20

\* strconv.Atoi succeeds on decimal text only.
AtoiOk(text) == text \in {"123", "456"}

\* strconv.FormatBool
FormatBool(b) == IF b THEN "true" ELSE "false"

\* The names and values of the seven optional fields of a rule.
RuleFields(rule) ==
    {<<"name", rule.Name>>, <<"src_ip", rule.SrcIP>>, <<"src_port", rule.SrcPort>>,
     <<"dst_ip", rule.DstIP>>, <<"dst_port", rule.DstPort>>,
     <<"protocol", rule.Protocol>>, <<"tcp_flags", rule.TCPFlags>>}

\* The url.Values that SetFirewall posts, as a set of <<key, value>> pairs; a
\* key of a rule is <<"rules", "input", index, field>> with a 0-based index.
FirewallForm(firewall) ==
    {<<<<"whitelist_hos">>, FormatBool(firewall.WhitelistHetznerServices)>>,
     <<<<"status">>, firewall.Status>>}
    \cup { <<<<"rules", "input", i - 1, "ip_version">>, "ipv4">> :
                i \in DOMAIN firewall.Rules.Input }
    \cup UNION { { <<<<"rules", "input", i - 1, f[1]>>, f[2]>> :
                      f \in { g \in RuleFields(firewall.Rules.Input[i]) : g[2] # "" } } :
                i \in DOMAIN firewall.Rules.Input }
    \cup { <<<<"rules", "input", i - 1, "action">>, firewall.Rules.Input[i].Action>> :
                i \in DOMAIN firewall.Rules.Input }

\* A delete that leaves the firewall disabled instead of active.
AllowAllDisabled(ip) ==
    [IP |-> ip, WhitelistHetznerServices |-> FALSE, Status |-> "disabled",
     Rules |-> [Input |-> <<[Name |-> "Allow all", SrcIP |-> "", SrcPort |-> "",
                             DstIP |-> "", DstPort |-> "", Protocol |-> "",
                             TCPFlags |-> "", Action |-> "accept"]>>]]

\* The client.Firewall literal of resourceDelete: a rule to allow all traffic.
AllowAll(ip) ==
    [IP |-> ip, WhitelistHetznerServices |-> FALSE, Status |-> "active",
     Rules |-> [Input |-> <<[Name |-> "Allow all", SrcIP |-> "", SrcPort |-> "",
                             DstIP |-> "", DstPort |-> "", Protocol |-> "",
                             TCPFlags |-> "", Action |-> "accept"]>>]]

\* resourceDelete(ctx, d, meta) of the firewall resource is entered for an
\* existing resource.
FirewallDeleteInit ==
    /\ rop = "firewallDelete"
    /\ opc = "start"
    /\ meta \in {"client", "other"}
    /\ resId \in {"123", "456"}
    /\ attrs \in [server_id : {"123", "456", "abc"}]
    /\ local = [set |-> FALSE]
    /\ apiCalls = <<>>
    /\ opResult = <<"none">>

\* resourceDelete up to the entry of SetFirewall: the client, the server ID,
\* FetchServerByID, and the firewall literal with the server's IP.
FirewallDeleteCall ==
    /\ rop = "firewallDelete"
    /\ opc = "start"
    /\ \/ /\ meta # "client"
          /\ opResult' = <<"invalid client type">>
          /\ opc' = "done"
          /\ UNCHANGED <<local, apiCalls, waitVars>>
       \/ /\ meta = "client"
          /\ ~AtoiOk(attrs.server_id)
          /\ opResult' = <<"invalid server ID">>
          /\ opc' = "done"
          /\ UNCHANGED <<local, apiCalls, waitVars>>
       \/ /\ meta = "client"
          /\ AtoiOk(attrs.server_id)
          /\ \E answer \in Answers, ip \in ServerIPs :
                IF answer.sent /\ answer.status = 200
                   THEN /\ local' = [id |-> resId, ip |-> ip]
                        /\ apiCalls' = Append(apiCalls,
                              [call |-> "SetFirewall", firewall |-> AllowAll(ip),
                               form |-> FirewallForm(AllowAll(ip)),
                               maxRetries |-> firewallDeleteRetries])
                        /\ opc' = "setting"
                        /\ wop' = "firewall"
                        /\ wpc' = "post"
                        /\ wid' = ip
                        /\ maxRetries' = firewallDeleteRetries
                        /\ UNCHANGED <<opResult, attempt, fetchCount, busyCount,
                                       readyCount, lastFetch, wresult>>
                   ELSE /\ opResult' = <<"error fetching server">>
                        /\ opc' = "done"
                        /\ UNCHANGED <<local, apiCalls, waitVars>>
    /\ UNCHANGED <<rop, meta, resId, attrs>>
    /\ UNCHANGED <<poolVars, diffVars, vlanVars, reqVars, provVars, strVars, fetchVars>>

\* SetFirewall has returned: its error is returned wrapped, otherwise the ID
\* is cleared.
FirewallDeleteReturn ==
    /\ rop = "firewallDelete"
    /\ opc = "setting"
    /\ wpc = "done"
    /\ IF wresult = <<"nil">>
          THEN /\ resId' = ""
               /\ opResult' = <<"nil">>
          ELSE /\ opResult' = <<"error setting firewall to allow all">>
               /\ UNCHANGED resId
    /\ opc' = "done"
    /\ UNCHANGED <<rop, meta, attrs, local, apiCalls>>
    /\ UNCHANGED otherThanRes

FirewallDeleteNext ==
    \/ FirewallDeleteCall
    \/ FirewallPost
    \/ FirewallGet
    \/ Sleep
    \/ FirewallGiveUp
    \/ FirewallDeleteReturn

\* C13: deleting a firewall resource sends one SetFirewall request with
\* status "active", whitelist_hos false and exactly one input rule, named
\* "Allow all" with action "accept" and every match field empty; the
\* resource ID is cleared only when SetFirewall, its activation wait
\* included, succeeded, and is unchanged on any error.
C13_FirewallDelete ==
    rop = "firewallDelete" =>
        /\ Len(apiCalls) <= 1
        /\ \A i \in DOMAIN apiCalls :
              LET fw == apiCalls[i].firewall
                  form == apiCalls[i].form IN
              /\ apiCalls[i].call = "SetFirewall"
              /\ fw.Status = "active"
              /\ fw.WhitelistHetznerServices = FALSE
              /\ Len(fw.Rules.Input) = 1
              /\ fw.Rules.Input[1].Name = "Allow all"
              /\ fw.Rules.Input[1].Action = "accept"
              /\ \A f \in {"SrcIP", "SrcPort", "DstIP", "DstPort", "Protocol", "TCPFlags"} :
                    fw.Rules.Input[1][f] = ""
              /\ form = {<<<<"whitelist_hos">>, "false">>,
                         <<<<"status">>, "active">>,
                         <<<<"rules", "input", 0, "ip_version">>, "ipv4">>,
                         <<<<"rules", "input", 0, "name">>, "Allow all">>,
                         <<<<"rules", "input", 0, "action">>, "accept">>}
        /\ resId = "" =>
              /\ opc = "done"
              /\ opResult = <<"nil">>
              /\ Len(apiCalls) = 1
              /\ wresult = <<"nil">>
              /\ readyCount = 1
              /\ lastFetch.status = "active"
        /\ (opc = "done" /\ opResult # <<"nil">>) => resId \in {"123", "456"}
        /\ (opc = "done" /\ wpc = "done" /\ wresult # <<"nil">>) =>
              /\ opResult = <<"error setting firewall to allow all">>
              /\ resId = local.id

\* The delete cleared the ID after the firewall became active on a later GET.
C13_Witness ==
    /\ rop = "firewallDelete"
    /\ opc = "done"
    /\ resId = ""
    /\ Len(apiCalls) = 1
    /\ busyCount > 0

\* The delete failed because the activation wait timed out; the ID is kept.
C13_WitnessTimeout ==
    /\ rop = "firewallDelete"
    /\ opc = "done"
    /\ wresult = FirewallTimeout(wid)
    /\ resId # ""

\* ---- resourceOSRescueCreate ----

\* waitForSSH is given waitMin minutes and retries every retryAfterSec
\* seconds; a dial gives up after waitTime seconds.
waitMin == 3
retryAfterSec == 10
waitTime == 5

\* The steps expected of a create, in order.
RescueSteps == <<"EnableRescueMode", "RebootServer", "waitForSSH", "RenameServer">>

\* A reboot that asks for a software reset.
RebootCallSoft(serverID) == [call |-> "RebootServer", server_id |-> serverID, type |-> "sw"]

\* hClient.RebootServer(ctx, serverID, "hw")
RebootCall(serverID) == [call |-> "RebootServer", server_id |-> serverID, type |-> "hw"]

\* resourceOSRescueCreate(ctx, d, meta) is entered for a new resource: no ID,
\* the computed attributes ip and ssh_password unset.
RescueCreateInit ==
    /\ rop = "rescueCreate"
    /\ opc = "start"
    /\ meta \in {"client", "other"}
    /\ resId = ""
    /\ attrs \in [server_name : {"node-a", "node-b"}, server_id : {"123", "456"},
                  rescue_os : {"linux", "freebsd"},
                  ssh_keys : {<<>>, <<"fingerprint-1">>},
                  ip : {""}, ssh_password : {""}]
    /\ local = [ip |-> "", pass |-> "", elapsed |-> 0, succeeded |-> <<>>]
    /\ apiCalls = <<>>
    /\ opResult = <<"none">>

\* Up to the call of EnableRescueMode.
RescueStart ==
    /\ rop = "rescueCreate"
    /\ opc = "start"
    /\ IF meta # "client"
          THEN /\ opResult' = <<"invalid client type">>
               /\ opc' = "done"
               /\ UNCHANGED apiCalls
          ELSE /\ apiCalls' = Append(apiCalls,
                      [call |-> "EnableRescueMode", server_id |-> attrs.server_id,
                       os |-> attrs.rescue_os, keys |-> attrs.ssh_keys])
               /\ opc' = "rescue"
               /\ UNCHANGED opResult
    /\ UNCHANGED <<rop, meta, resId, attrs, local>>
    /\ UNCHANGED otherThanRes

\* EnableRescueMode returns; on success the IP and the password of its answer
\* are kept and RebootServer is called.
RescueEnabled ==
    /\ rop = "rescueCreate"
    /\ opc = "rescue"
    /\ \/ /\ opResult' = <<"failed to enable rescue mode for server ", attrs.server_id>>
          /\ opc' = "done"
          /\ UNCHANGED <<local, apiCalls>>
       \/ \E ip \in ServerIPs, pass \in {"pw-1", "pw-2"} :
          /\ local' = [local EXCEPT !.ip = ip, !.pass = pass,
                                    !.succeeded = Append(@, "EnableRescueMode")]
          /\ apiCalls' = Append(apiCalls, RebootCall(attrs.server_id))
          /\ opc' = "reboot"
          /\ UNCHANGED opResult
    /\ UNCHANGED <<rop, meta, resId, attrs>>
    /\ UNCHANGED otherThanRes

\* RebootServer returns; on success waitForSSH is entered.
RescueRebooted ==
    /\ rop = "rescueCreate"
    /\ opc = "reboot"
    /\ \/ /\ opResult' = <<"failed to reboot server ", attrs.server_id>>
          /\ opc' = "done"
          /\ UNCHANGED <<local, apiCalls>>
       \/ /\ local' = [local EXCEPT !.succeeded = Append(@, "RebootServer")]
          /\ apiCalls' = Append(apiCalls,
                [call |-> "waitForSSH", ip |-> local.ip,
                 timeout |-> waitMin * 60, interval |-> retryAfterSec])
          /\ opc' = "ssh"
          /\ UNCHANGED opResult
    /\ UNCHANGED <<rop, meta, resId, attrs>>
    /\ UNCHANGED otherThanRes

\* One turn of the loop of waitForSSH: a dial of ip:22 before the deadline;
\* when it succeeds waitForSSH returns nil and RenameServer is called, when
\* it fails, after up to waitTime seconds, the loop sleeps for the interval.
RescueDial ==
    /\ rop = "rescueCreate"
    /\ opc = "ssh"
    /\ local.elapsed < waitMin * 60
    /\ \/ /\ local' = [local EXCEPT !.succeeded = Append(@, "waitForSSH")]
          /\ apiCalls' = Append(apiCalls,
                [call |-> "RenameServer", server_id |-> attrs.server_id,
                 name |-> attrs.server_name])
          /\ opc' = "rename"
       \/ \E dialed \in {0, waitTime} :
          /\ local' = [local EXCEPT !.elapsed = @ + dialed + retryAfterSec]
          /\ UNCHANGED <<apiCalls, opc>>
    /\ UNCHANGED <<rop, meta, resId, attrs, opResult>>
    /\ UNCHANGED otherThanRes

\* The deadline of waitForSSH has passed.
RescueSSHTimeout ==
    /\ rop = "rescueCreate"
    /\ opc = "ssh"
    /\ local.elapsed >= waitMin * 60
    /\ opResult' = <<"SSH not available on server ", attrs.server_id>>
    /\ opc' = "done"
    /\ UNCHANGED <<rop, meta, resId, attrs, local, apiCalls>>
    /\ UNCHANGED otherThanRes

\* RenameServer returns; on success ip, ssh_password and the ID are set.
RescueRenamed ==
    /\ rop = "rescueCreate"
    /\ opc = "rename"
    /\ \/ /\ opResult' = <<"failed to rename server ", attrs.server_id>>
          /\ UNCHANGED <<local, attrs, resId>>
       \/ /\ local' = [local EXCEPT !.succeeded = Append(@, "RenameServer")]
          /\ attrs' = [attrs EXCEPT !.ip = local.ip, !.ssh_password = local.pass]
          /\ resId' = attrs.server_id
          /\ opResult' = <<"nil">>
    /\ opc' = "done"
    /\ UNCHANGED <<rop, meta, apiCalls>>
    /\ UNCHANGED otherThanRes

RescueCreateNext ==
    \/ RescueStart
    \/ RescueEnabled
    \/ RescueRebooted
    \/ RescueDial
    \/ RescueSSHTimeout
    \/ RescueRenamed

C14_WitnessRenameFailed ==
    /\ rop = "rescueCreate"
    /\ opc = "done"
    /\ Len(apiCalls) = 4
    /\ Len(local.succeeded) = 3
    /\ resId = ""

(***************************************************************************)
(* IntSliceToString                                                        *)
(***************************************************************************)

\* Bound of the inputs: the length of the slice.
MaxInts == 3

IntValues == {-42, -5, 0, 1, 2, 3, 5, 10, 42}

IntSlices == UNION { [1..n -> IntValues] : n \in 0..MaxInts }

\* The decimal digits of a natural number, most significant first.
RECURSIVE Digits(_)
Digits(n) ==
    LET DigitChars == <<"0", "1", "2", "3", "4", "5", "6", "7", "8", "9">> IN
    IF n < 10 THEN DigitChars[n + 1]
    ELSE Digits(n \div 10) \o DigitChars[(n % 10) + 1]

\* A formatting that drops the sign.
SprintfUnsigned(v) == IF v < 0 THEN Digits(0 - v) ELSE Digits(v)

\* fmt.Sprintf("%d", v)
Sprintf(v) == IF v < 0 THEN "-" \o Digits(0 - v) ELSE Digits(v)

\* strings.Join(elems, sep)
RECURSIVE Join(_, _)
Join(elems, sep) ==
    IF Len(elems) = 0 THEN ""
    ELSE IF Len(elems) = 1 THEN elems[1]
    ELSE elems[1] \o sep \o Join(Tail(elems), sep)

\* out[i] = fmt.Sprintf("%d", v) for every element, then strings.Join(out, "-").
IntSliceToString(list) == Join([i \in DOMAIN list |-> Sprintf(list[i])], "-")

NoFetched == [items |-> <<>>, err |-> "none"]

FetchIdle ==
    /\ fetcher = "idle"
    /\ fetched = NoFetched

StrIdle ==
    /\ spc = "idle"
    /\ ints = <<>>
    /\ out = ""

\* IntSliceToString(ints) is called.
StrInit ==
    /\ spc = "call"
    /\ ints \in IntSlices
    /\ out = ""

\* The call returns.
Convert ==
    /\ spc = "call"
    /\ out' = IntSliceToString(ints)
    /\ spc' = "done"
    /\ UNCHANGED ints
    /\ UNCHANGED <<poolVars, diffVars, waitVars, vlanVars, reqVars, provVars, resVars,
                   fetchVars>>

StrNext ==
    \/ Convert

\* The decimal text of each value of IntValues, written out.
DecimalText(v) ==
    CASE v = -42 -> "-42" [] v = -5 -> "-5" [] v = 0 -> "0" [] v = 1 -> "1"
      [] v = 2 -> "2" [] v = 3 -> "3" [] v = 5 -> "5" [] v = 10 -> "10"
      [] v = 42 -> "42"

\* The texts of list[1..n], each but the first preceded by "-".
RECURSIVE Dashed(_, _)
Dashed(list, n) ==
    IF n = 0 THEN ""
    ELSE Dashed(list, n - 1) \o (IF n > 1 THEN "-" ELSE "") \o DecimalText(list[n])

\* C15: IntSliceToString returns the decimal texts of the integers joined by
\* "-" in the given order, without sorting or deduplication: "" for the empty
\* list, the decimal text for a single element, and negative values keep
\* their sign, so that [-5, 0, 5] gives "-5-0-5".
C15_IntSliceToString ==
    spc = "done" =>
        /\ out = Dashed(ints, Len(ints))
        /\ ints = <<>> => out = ""
        /\ Len(ints) = 1 => out = DecimalText(ints[1])
        /\ ints = <<42>> => out = "42"
        /\ ints = <<1, 2, 3>> => out = "1-2-3"
        /\ ints = <<-5, 0, 5>> => out = "-5-0-5"
        /\ ints = <<3, 2, 1>> => out = "3-2-1"
        /\ ints = <<5, 5>> => out = "5-5"

\* The call with [-5, 0, 5] has returned.
C15_Witness ==
    /\ spc = "done"
    /\ ints = <<-5, 0, 5>>
    /\ out = "-5-0-5"

(***************************************************************************)
(* FetchVSwitchesByIDs and FetchServersByIDs                               *)
(***************************************************************************)

\* The id lists with distinct ids, in every order.  The worker's answer for an
\* id is ItemOf(id), whose second component is the vSwitch ID or the server
\* number the result is sorted by.
DistinctIdLists ==
    { s \in UNION { [1..n -> IdValues] : n \in 0..MaxDistinct } :
        \A i, j \in DOMAIN s : i # j => s[i] # s[j] }

\* A fetcher that returns the items as the pool collected them.
SortSliceSkipped(list) == list

\* sort.Slice(list, less) with less comparing the ID (the Number): for fewer
\* than 12 elements an insertion sort, which moves each element down past the
\* elements that are greater.
SortSlice(list) ==
    LET RECURSIVE Insert(_, _)
        Insert(sorted, x) ==
            IF Len(sorted) = 0 THEN <<x>>
            ELSE IF x[2] < sorted[Len(sorted)][2]
                THEN Append(Insert(SubSeq(sorted, 1, Len(sorted) - 1), x),
                            sorted[Len(sorted)])
                ELSE Append(sorted, x)
        RECURSIVE Sorted(_)
        Sorted(n) == IF n = 0 THEN <<>> ELSE Insert(Sorted(n - 1), list[n])
    IN Sorted(Len(list))

\* FetchVSwitchesByIDs(ctx, ids) or FetchServersByIDs(ctx, ids) is entered and
\* calls runConcurrentTasks.
FetchInit ==
    /\ fetcher \in {"vswitch", "server"}
    /\ fetched = NoFetched
    /\ ids \in DistinctIdLists
    /\ failing \in SUBSET Range(ids)
    /\ pc = "loop"
    /\ next = 1
    /\ wg = 0
    /\ sem = 0
    /\ blocked = Zero
    /\ working = Zero
    /\ returned = Zero
    /\ items = <<>>
    /\ errs = <<>>
    /\ calls = Zero
    /\ result = [items |-> <<>>, err |-> NilError]

\* runConcurrentTasks has returned: its error is wrapped, otherwise the items
\* are sorted and returned.
FetchReturn ==
    /\ fetcher # "idle"
    /\ pc = "done"
    /\ fetched = NoFetched
    /\ fetched' =
          IF ~result.err.isNil
             THEN [items |-> <<>>,
                   err |-> IF fetcher = "vswitch" THEN "error fetching vSwitches"
                                                  ELSE "error fetching Servers"]
             ELSE [items |-> SortSlice(result.items), err |-> "nil"]
    /\ UNCHANGED <<fetcher, poolVars, diffVars, waitVars, vlanVars, reqVars,
                   provVars, resVars, strVars>>

FetchNext ==
    \/ Spawn
    \/ LoopExit
    \/ \E k \in IdValues : Acquire(k)
    \/ \E k \in IdValues : Release(k)
    \/ \E k \in IdValues : Collect(k)
    \/ Return
    \/ FetchReturn

\* C18: for answers that all succeed and have distinct keys, a by-IDs fetcher
\* returns the answers of the given ids in ascending order of the key (the
\* vSwitch ID, the server number), whatever the order of ids and the order in
\* which the concurrent fetches completed: the result is determined by the
\* set of ids alone.
C18_FetchersSorted ==
    (fetcher # "idle" /\ fetched # NoFetched /\ failing = {}) =>
        /\ fetched.err = "nil"
        /\ Len(fetched.items) = Len(ids)
        /\ { fetched.items[i] : i \in DOMAIN fetched.items }
              = { ItemOf(ids[i]) : i \in DOMAIN ids }
        /\ \A i \in 1..(Len(fetched.items) - 1) :
              fetched.items[i][2] < fetched.items[i + 1][2]

\* FetchVSwitchesByIDs returned three vSwitches in ascending order although
\* the ids were given in another order and the fetches completed in a third.
C18_Witness ==
    /\ fetcher = "vswitch"
    /\ fetched.err = "nil"
    /\ ids = <<2, 3, 1>>
    /\ result.items = <<ItemOf(3), ItemOf(1), ItemOf(2)>>
    /\ fetched.items = <<ItemOf(1), ItemOf(2), ItemOf(3)>>

\* FetchServersByIDs returned sorted servers after fetches that completed in
\* descending order.
C18_WitnessServers ==
    /\ fetcher = "server"
    /\ fetched.err = "nil"
    /\ result.items = <<ItemOf(3), ItemOf(2), ItemOf(1)>>

(***************************************************************************)
(* Specifications: one per part, the other parts idle                      *)
(***************************************************************************)

InitPool == PoolInit /\ DiffIdle /\ WaitIdle /\ VlanIdle /\ ReqIdle /\ ProvIdle /\ ResIdle /\ StrIdle /\ FetchIdle

SpecPool == InitPool /\ [][PoolNext]_vars

InitDiff == DiffInit /\ PoolIdle /\ WaitIdle /\ VlanIdle /\ ReqIdle /\ ProvIdle /\ ResIdle /\ StrIdle /\ FetchIdle

SpecDiff == InitDiff /\ [][DiffNext]_vars

InitWait == WaitInit /\ PoolIdle /\ DiffIdle /\ VlanIdle /\ ReqIdle /\ ProvIdle /\ ResIdle /\ StrIdle /\ FetchIdle

SpecWait == InitWait /\ [][WaitNext]_vars

InitVlan == VlanInit /\ PoolIdle /\ DiffIdle /\ WaitIdle /\ ReqIdle /\ ProvIdle /\ ResIdle /\ StrIdle /\ FetchIdle

SpecVlan == InitVlan /\ [][VlanNext]_vars

InitReq == ReqInit /\ PoolIdle /\ DiffIdle /\ WaitIdle /\ VlanIdle /\ ProvIdle /\ ResIdle /\ StrIdle /\ FetchIdle

SpecReq == InitReq /\ [][ReqNext]_vars

InitProv == ProvInit /\ PoolIdle /\ DiffIdle /\ WaitIdle /\ VlanIdle /\ ReqIdle /\ ResIdle /\ StrIdle /\ FetchIdle

SpecProv == InitProv /\ [][ProvNext]_vars

InitVSwitchDelete ==
    VSwitchDeleteInit /\ PoolIdle /\ DiffIdle /\ WaitIdle /\ VlanIdle /\ ReqIdle /\ ProvIdle
        /\ StrIdle /\ FetchIdle

SpecVSwitchDelete == InitVSwitchDelete /\ [][VSwitchDeleteNext]_vars

InitFirewallDelete ==
    FirewallDeleteInit /\ PoolIdle /\ DiffIdle /\ WaitIdle /\ VlanIdle /\ ReqIdle /\ ProvIdle
        /\ StrIdle /\ FetchIdle

SpecFirewallDelete == InitFirewallDelete /\ [][FirewallDeleteNext]_vars

InitRescueCreate ==
    RescueCreateInit /\ PoolIdle /\ DiffIdle /\ WaitIdle /\ VlanIdle /\ ReqIdle /\ ProvIdle
        /\ StrIdle /\ FetchIdle

SpecRescueCreate == InitRescueCreate /\ [][RescueCreateNext]_vars

InitStr ==
    StrInit /\ PoolIdle /\ DiffIdle /\ WaitIdle /\ VlanIdle /\ ReqIdle /\ ProvIdle
        /\ ResIdle /\ FetchIdle

SpecStr == InitStr /\ [][StrNext]_vars

InitPoolFair == InitPool /\ ids \in FairIdLists

\* The Go scheduler runs every runnable goroutine eventually, and every worker
\* invocation is taken to return.
SpecPoolFair ==
    /\ InitPoolFair
    /\ [][PoolNext]_vars
    /\ WF_vars(Spawn)
    /\ WF_vars(LoopExit)
    /\ \A k \in IdValues : WF_vars(Acquire(k))
    /\ \A k \in IdValues : WF_vars(Release(k))
    /\ \A k \in IdValues : WF_vars(Collect(k))
    /\ WF_vars(Return)

InitFetch ==
    FetchInit /\ DiffIdle /\ WaitIdle /\ VlanIdle /\ ReqIdle /\ ProvIdle /\ ResIdle
        /\ StrIdle

SpecFetch == InitFetch /\ [][FetchNext]_vars

====
